---- MODULE Spec2Model ----
(***************************************************************************)
(* Model of the useRefFields hook (field-reference registry) and of the    *)
(* form that consumes it (App / DeckForm / MyInputRadio).                   *)
(*                                                                         *)
(* JavaScript values are modelled as strings: an element handle is the     *)
(* identity of a DOM element, Null and Undefined are the two absent        *)
(* markers, a field value is the text of element.value.                    *)
(***************************************************************************)
EXTENDS Integers, Sequences, FiniteSets, TLC

-----------------------------------------------------------------------------
(* Bounds of the model *)

MaxFields == 3       \* longest field-name list passed to useRefFields
NumElements == 2     \* DOM elements a caller may hand to a registration callback
MaxTracked == 2      \* longest field-name list in the runs that keep the history

ElementPool == <<"el1", "el2", "el3", "el4">>

(* The alphabets the inputs are drawn from. "10" and "2" are array-index    *)
(* keys, the others are ordinary property names.                            *)
Names == {"name", "10", "desc", "2"}
Elements == {ElementPool[i] : i \in 1..NumElements}
Values == {"", "Fire"}

Null == "null"
Undefined == "undefined"

Range(s) == {s[i] : i \in 1..Len(s)}

(* The field-name lists a caller may pass: ordered, distinct tokens. *)
FieldLists ==
    {s \in UNION {[1..n -> Names] : n \in 0..MaxFields} :
        \A i, j \in 1..Len(s) : i # j => s[i] # s[j]}

-----------------------------------------------------------------------------
(* JavaScript objects: own string keys with their enumeration order.        *)
(* Keys that are canonical array indices enumerate first, in ascending      *)
(* numeric order; the other keys follow in insertion order.                 *)

ArrayIndex(k) ==
    CASE k = "2" -> 2
      [] k = "10" -> 10
      [] OTHER -> -1

IsArrayIndex(k) == ArrayIndex(k) >= 0

EmptyObject == [keys |-> <<>>, val |-> <<>>]

RECURSIVE InsertKey(_, _)
InsertKey(ks, k) ==
    IF ks = <<>> THEN <<k>>
    ELSE IF IsArrayIndex(k)
            /\ (~IsArrayIndex(Head(ks)) \/ ArrayIndex(k) < ArrayIndex(Head(ks)))
         THEN <<k>> \o ks
         ELSE <<Head(ks)>> \o InsertKey(Tail(ks), k)

HasOwn(o, k) == k \in Range(o.keys)

(* o[k] *)
ObjGet(o, k) == IF HasOwn(o, k) THEN o.val[k] ELSE Undefined

(* o[k] = v, and the computed key of { ...o, [k]: v } *)
ObjDefine(o, k, v) ==
    IF HasOwn(o, k)
    THEN [keys |-> o.keys, val |-> [o.val EXCEPT ![k] = v]]
    ELSE [keys |-> InsertKey(o.keys, k), val |-> (k :> v) @@ o.val]

-----------------------------------------------------------------------------
(* State *)

VARIABLES
    fields,       \* the `fields` argument of useRefFields
    fieldsRef,    \* fieldsRef.current
    elValue,      \* element |-> its current .value
    result,       \* the last call made, with its arguments and its outcome
    valueAtReg,   \* history: name |-> the value its handle had when it was stored
    everStored,   \* history: the names a non-null handle was ever stored at
    phase,        \* the form: "unmounted" or "mounted"
    queue,        \* the form: ref callbacks the running commit has yet to invoke
    checked       \* the form: the radio input the user selected, or Null

vars ==
    <<fields, fieldsRef, elValue, result, valueAtReg, everStored, phase, queue, checked>>

NoCall == [op |-> "none"]

Return(v) == [outcome |-> "return", value |-> v]
Throw(type, message) == [outcome |-> "throw", type |-> type, message |-> message]

-----------------------------------------------------------------------------
(* useRefFields *)

RECURSIVE ReduceInitialState(_, _, _)
ReduceInitialState(fs, i, obj) ==
    IF i > Len(fs) THEN obj
    ELSE ReduceInitialState(fs, i + 1, ObjDefine(obj, fs[i], Null))

initialState(fs) == ReduceInitialState(fs, 1, EmptyObject)

(* the template string of the thrown Error *)
NotAssignedMessage(key) == <<"La référence ", key, " n'est pas affectée !">>

(* the TypeError of null.value / undefined.value *)
ReadValueOfNullish(x) == <<"Cannot read properties of ", x, " (reading 'value')">>

IsNullish(x) == x = Undefined \/ x = Null

assertIsDefined(value, key) ==
    IF value = Undefined \/ value = Null
    THEN Throw("Error", NotAssignedMessage(key))
    ELSE Return(Undefined)

(* setRef without its membership test *)
setRef_unguarded(key, ref) == fieldsRef' = ObjDefine(fieldsRef, key, ref)

(* setRef keeping the stored handle when it is invoked with null *)
setRef_keepOnNull(key, ref) ==
    fieldsRef' = IF key \in Range(fields) /\ ref # Null
                 THEN ObjDefine(fieldsRef, key, ref)
                 ELSE fieldsRef

(* setRef resetting the whole mapping when it is invoked with null *)
setRef_clearOthers(key, ref) ==
    fieldsRef' = IF key \in Range(fields)
                 THEN IF ref = Null THEN initialState(fields)
                      ELSE ObjDefine(fieldsRef, key, ref)
                 ELSE fieldsRef

(* setRef keeping the first handle stored at a key that already has one *)
setRef_firstWins(key, ref) ==
    fieldsRef' = IF key \in Range(fields)
                    /\ (ref = Null \/ IsNullish(ObjGet(fieldsRef, key)))
                 THEN ObjDefine(fieldsRef, key, ref)
                 ELSE fieldsRef

(* the callback (ref) => { if (fields.includes(key)) fieldsRef.current[key] = ref } *)
setRef(key, ref) ==
    fieldsRef' = IF key \in Range(fields)
                 THEN ObjDefine(fieldsRef, key, ref)
                 ELSE fieldsRef

(* getRef answering the empty string where no handle is stored *)
getRef_lenient(key) ==
    IF IsNullish(ObjGet(fieldsRef, key)) THEN Return("")
    ELSE Return(elValue[ObjGet(fieldsRef, key)])

(* getRef answering the value the handle had when it was stored *)
getRef_cached(key) ==
    LET a == assertIsDefined(ObjGet(fieldsRef, key), key)
    IN  IF a.outcome = "throw" THEN a ELSE Return(valueAtReg[key])

getRef(key) ==
    LET a == assertIsDefined(ObjGet(fieldsRef, key), key)
    IN  IF a.outcome = "throw" THEN a
        ELSE Return(elValue[ObjGet(fieldsRef, key)])

(* x?.value ?? "" *)
OptionalValue_empty(x) == IF IsNullish(x) THEN "" ELSE elValue[x]

(* x?.value *)
OptionalValue(x) == IF IsNullish(x) THEN Undefined ELSE elValue[x]

RECURSIVE ReduceAllRef(_, _)
ReduceAllRef(i, obj) ==
    IF i > Len(fields) THEN obj
    ELSE ReduceAllRef(i + 1,
            ObjDefine(obj, fields[i], OptionalValue(ObjGet(fieldsRef, fields[i]))))

(* getAllRef reading each field through the strict accessor *)
getAllRef_strict ==
    IF \E i \in 1..Len(fields) : IsNullish(ObjGet(fieldsRef, fields[i]))
    THEN Throw("Error", NotAssignedMessage(
            fields[CHOOSE i \in 1..Len(fields) : IsNullish(ObjGet(fieldsRef, fields[i]))]))
    ELSE Return(ReduceAllRef(1, initialState(fields)))

getAllRef == Return(ReduceAllRef(1, initialState(fields)))

(* ToBoolean of a callback's return value *)
Truthy(v) == ~IsNullish(v) /\ v # ""

(* fields.every((key) => assertIsDefined(fieldsRef.current[key], key)) *)
RECURSIVE EveryAssertIsDefined(_)
EveryAssertIsDefined(i) ==
    IF i > Len(fields) THEN Return("true")
    ELSE LET a == assertIsDefined(ObjGet(fieldsRef, fields[i]), fields[i])
         IN  IF a.outcome = "throw" THEN a
             ELSE IF Truthy(a.value) THEN EveryAssertIsDefined(i + 1)
             ELSE Return("false")

(* the reduce of getFormData leaving out the fields that have no handle *)
RECURSIVE ReduceFormData_skip(_, _)
ReduceFormData_skip(i, form) ==
    IF i > Len(fields) THEN Return(form)
    ELSE LET h == ObjGet(fieldsRef, fields[i])
         IN  IF IsNullish(h) THEN ReduceFormData_skip(i + 1, form)
             ELSE ReduceFormData_skip(i + 1, Append(form, <<fields[i], elValue[h]>>))

(* the reduce of getFormData putting each pair in front of the earlier ones *)
RECURSIVE ReduceFormData_prepend(_, _)
ReduceFormData_prepend(i, form) ==
    IF i > Len(fields) THEN Return(form)
    ELSE LET h == ObjGet(fieldsRef, fields[i])
         IN  IF IsNullish(h) THEN Throw("TypeError", ReadValueOfNullish(h))
             ELSE ReduceFormData_prepend(i + 1, <<<<fields[i], elValue[h]>>>> \o form)

(* form.append(key, fieldsRef.current[key]!.value) over fields, from new FormData() *)
RECURSIVE ReduceFormData(_, _)
ReduceFormData(i, form) ==
    IF i > Len(fields) THEN Return(form)
    ELSE LET h == ObjGet(fieldsRef, fields[i])
         IN  IF IsNullish(h) THEN Throw("TypeError", ReadValueOfNullish(h))
             ELSE ReduceFormData(i + 1, Append(form, <<fields[i], elValue[h]>>))

getFormData ==
    LET e == EveryAssertIsDefined(1)
    IN  IF e.outcome = "throw" THEN e ELSE ReduceFormData(1, <<>>)

-----------------------------------------------------------------------------
(* The registry driven by an arbitrary caller *)

Init ==
    /\ fields \in FieldLists
    /\ fieldsRef = initialState(fields)
    /\ elValue \in [Elements -> Values]
    /\ result = NoCall
    /\ valueAtReg = [n \in Names |-> Undefined]
    /\ everStored = {}
    /\ phase = "unmounted"
    /\ queue = <<>>
    /\ checked = Null

(* a registration callback runs: setRef(key)(ref) *)
SetRefCall ==
    \E key \in Names, ref \in Elements \cup {Null} :
        /\ setRef(key, ref)
        /\ result' = [op |-> "setRef", key |-> key, ref |-> ref, res |-> Return(Undefined)]
        /\ UNCHANGED <<fields, elValue, valueAtReg, everStored, phase, queue, checked>>

(* the user edits an element *)
UserInput ==
    \E e \in Elements, v \in Values :
        /\ elValue[e] # v
        /\ elValue' = [elValue EXCEPT ![e] = v]
        /\ result' = NoCall
        /\ UNCHANGED <<fields, fieldsRef, valueAtReg, everStored, phase, queue, checked>>

GetRefCall ==
    \E key \in Names :
        /\ result' = [op |-> "getRef", key |-> key, res |-> getRef(key)]
        /\ UNCHANGED <<fields, fieldsRef, elValue, valueAtReg, everStored, phase, queue, checked>>

GetAllRefCall ==
    /\ result' = [op |-> "getAllRef", res |-> getAllRef]
    /\ UNCHANGED <<fields, fieldsRef, elValue, valueAtReg, everStored, phase, queue, checked>>

GetFormDataCall ==
    /\ result' = [op |-> "getFormData", res |-> getFormData]
    /\ UNCHANGED <<fields, fieldsRef, elValue, valueAtReg, everStored, phase, queue, checked>>

Next ==
    \/ SetRefCall
    \/ UserInput
    \/ GetRefCall
    \/ GetAllRefCall
    \/ GetFormDataCall

Spec == Init /\ [][Next]_vars

-----------------------------------------------------------------------------
(* The same registry, with the history of each name's registrations kept *)

InitHistory ==
    /\ Init
    /\ Len(fields) <= MaxTracked

SetRefObserved ==
    \E key \in Names, ref \in Elements \cup {Null} :
        /\ setRef(key, ref)
        /\ result' = [op |-> "setRef", key |-> key, ref |-> ref, res |-> Return(Undefined)]
        /\ valueAtReg' = IF key \in Range(fields)
                         THEN [valueAtReg EXCEPT ![key] = OptionalValue(ref)]
                         ELSE valueAtReg
        /\ everStored' = IF key \in Range(fields) /\ ref # Null
                         THEN everStored \cup {key}
                         ELSE everStored
        /\ UNCHANGED <<fields, elValue, phase, queue, checked>>

NextHistory ==
    \/ SetRefObserved
    \/ UserInput
    \/ GetRefCall

SpecHistory == InitHistory /\ [][NextHistory]_vars

-----------------------------------------------------------------------------
(* The form as wired: App renders DeckForm, DeckForm renders MyInputRadio *)

inputsName == <<"name", "desc", "radio_test", "select">>

(* the data prop of MyInputRadio: the value attribute of each radio input *)
radio_test == <<"label1", "label2", "label3">>

RadioPool == <<"radio1", "radio2", "radio3">>

(* MyInputRadio: one <input type="radio" ref={setRef(name)}> per item of data *)
MyInputRadio(name, data) == [i \in 1..Len(data) |-> <<name, RadioPool[i]>>]

(* DeckForm with its MyInputRadio left out *)
DeckForm_noRadio == <<<<"name", "input">>, <<"desc", "textarea">>, <<"select", "select">>>>

(* DeckForm: the (key, element) pairs of its ref attributes, in document order *)
DeckForm ==
    <<<<"name", "input">>, <<"desc", "textarea">>>>
    \o MyInputRadio("radio_test", radio_test)
    \o <<<<"select", "select">>>>

FormElements == {DeckForm[i][2] : i \in 1..Len(DeckForm)}

(* the value of each element as first rendered *)
RenderedValue(e) ==
    CASE e = "input" -> ""
      [] e = "textarea" -> ""
      [] e = "select" -> "default"
      [] OTHER -> radio_test[CHOOSE i \in 1..Len(radio_test) : RadioPool[i] = e]

(* the values a user can give an element: text typed, an option chosen; the *)
(* value of a radio input is its value attribute whether checked or not     *)
UserValues(e) ==
    CASE e = "input" -> {"", "Fire"}
      [] e = "textarea" -> {"", "A deck"}
      [] e = "select" -> {"default", "rouge"}
      [] OTHER -> {RenderedValue(e)}

(* React invokes each ref callback with its element when the element mounts *)
AttachRefs == DeckForm

(* and with null when the element unmounts or its ref callback is replaced *)
DetachRefs == [i \in 1..Len(DeckForm) |-> <<DeckForm[i][1], Null>>]

(* getField(key): the possibly-absent handle stored at key *)
getField(key) == ObjGet(fieldsRef, key)

(* isFieldNotNull(field): the presence predicate *)
isFieldNotNull(field) == ~IsNullish(field)

FieldIsNullMessage(key) == <<"The field with ", key, " key is null">>

(* focusIfEmpty with its test on the value inverted *)
focusIfEmpty_nonEmpty(key) ==
    LET field == getField(key)
    IN  IF isFieldNotNull(field)
        THEN Return(IF elValue[field] # "" THEN <<field>> ELSE <<>>)
        ELSE Throw("Error", FieldIsNullMessage(key))

(* focusIfEmpty(key): the sequence of focus() calls it makes, or its throw *)
focusIfEmpty(key) ==
    LET field == getField(key)
    IN  IF isFieldNotNull(field)
        THEN Return(IF elValue[field] = "" THEN <<field>> ELSE <<>>)
        ELSE Throw("Error", FieldIsNullMessage(key))

(* handleSubmit catching the error of getRef and going on with "" *)
handleSubmit_catching ==
    LET r == getRef("radio_test")
        v == IF r.outcome = "throw" THEN "" ELSE r.value
        a == getAllRef
        f == focusIfEmpty("name")
    IN  IF f.outcome = "throw"
        THEN [console |-> <<v, a.value>>, focus |-> <<>>, end |-> f]
        ELSE [console |-> <<v, a.value>>, focus |-> f.value, end |-> Return(Undefined)]

(* handleSubmit: what it logged, what it focused, and how it ended *)
handleSubmit ==
    LET r == getRef("radio_test")
        a == getAllRef
        f == focusIfEmpty("name")
    IN  IF r.outcome = "throw"
        THEN [console |-> <<>>, focus |-> <<>>, end |-> r]
        ELSE IF f.outcome = "throw"
        THEN [console |-> <<r.value, a.value>>, focus |-> <<>>, end |-> f]
        ELSE [console |-> <<r.value, a.value>>, focus |-> f.value,
              end |-> Return(Undefined)]

InitForm ==
    /\ fields = inputsName
    /\ fieldsRef = initialState(fields)
    /\ elValue = [e \in FormElements |-> RenderedValue(e)]
    /\ result = NoCall
    /\ valueAtReg = [n \in Names |-> Undefined]
    /\ everStored = {}
    /\ phase = "unmounted"
    /\ queue = <<>>
    /\ checked = Null

Idle == phase = "mounted" /\ queue = <<>>

(* first render: the commit attaches every ref *)
Mount ==
    /\ phase = "unmounted"
    /\ queue = <<>>
    /\ phase' = "mounted"
    /\ queue' = AttachRefs
    /\ elValue' = [e \in FormElements |-> RenderedValue(e)]
    /\ checked' = Null
    /\ result' = NoCall
    /\ UNCHANGED <<fields, fieldsRef, valueAtReg, everStored>>

(* App renders again: setRef(key) is a new function at each render, so the  *)
(* commit detaches every old ref, then attaches every new one               *)
Rerender ==
    /\ Idle
    /\ queue' = DetachRefs \o AttachRefs
    /\ result' = NoCall
    /\ UNCHANGED <<fields, fieldsRef, elValue, valueAtReg, everStored, phase, checked>>

Unmount ==
    /\ Idle
    /\ phase' = "unmounted"
    /\ queue' = DetachRefs
    /\ result' = NoCall
    /\ UNCHANGED <<fields, fieldsRef, elValue, valueAtReg, everStored, checked>>

(* the commit invokes its next ref callback; no event handler runs before   *)
(* the commit is over                                                        *)
CommitRef ==
    /\ queue # <<>>
    /\ setRef(Head(queue)[1], Head(queue)[2])
    /\ queue' = Tail(queue)
    /\ result' = [op |-> "setRef", key |-> Head(queue)[1], ref |-> Head(queue)[2],
                  res |-> Return(Undefined)]
    /\ UNCHANGED <<fields, elValue, valueAtReg, everStored, phase, checked>>

FormInput ==
    /\ Idle
    /\ \E e \in FormElements :
        \E v \in UserValues(e) :
            /\ elValue[e] # v
            /\ elValue' = [elValue EXCEPT ![e] = v]
    /\ result' = NoCall
    /\ UNCHANGED <<fields, fieldsRef, valueAtReg, everStored, phase, queue, checked>>

(* the user selects a radio input of the group; its .value stays its value *)
(* attribute                                                               *)
SelectRadio ==
    /\ Idle
    /\ \E i \in 1..Len(radio_test) :
          /\ checked # RadioPool[i]
          /\ checked' = RadioPool[i]
    /\ result' = NoCall
    /\ UNCHANGED <<fields, fieldsRef, elValue, valueAtReg, everStored, phase, queue>>

(* the user submits the mounted form *)
Submit ==
    /\ Idle
    /\ result' = [op |-> "handleSubmit", res |-> handleSubmit]
    /\ UNCHANGED <<fields, fieldsRef, elValue, valueAtReg, everStored, phase, queue, checked>>

NextForm ==
    \/ Mount
    \/ Rerender
    \/ Unmount
    \/ CommitRef
    \/ FormInput
    \/ SelectRadio
    \/ Submit

SpecForm == InitForm /\ [][NextForm]_vars

-----------------------------------------------------------------------------
(* The consumer's functions over the registry of inputsName, with no        *)
(* ordering assumed: each rendered element may mount or unmount on its own, *)
(* and the functions may be called at any time                              *)

FieldCallback ==
    \E i \in 1..Len(DeckForm) :
        \E ref \in {DeckForm[i][2], Null} :
            /\ setRef(DeckForm[i][1], ref)
            /\ result' = [op |-> "setRef", key |-> DeckForm[i][1], ref |-> ref,
                          res |-> Return(Undefined)]
            /\ UNCHANGED <<fields, elValue, valueAtReg, everStored, phase, queue, checked>>

FieldEdit ==
    /\ \E e \in FormElements :
        \E v \in UserValues(e) :
            /\ elValue[e] # v
            /\ elValue' = [elValue EXCEPT ![e] = v]
    /\ result' = NoCall
    /\ UNCHANGED <<fields, fieldsRef, valueAtReg, everStored, phase, queue, checked>>

SubmitCall ==
    /\ result' = [op |-> "handleSubmit", res |-> handleSubmit]
    /\ UNCHANGED <<fields, fieldsRef, elValue, valueAtReg, everStored, phase, queue, checked>>

FocusIfEmptyCall ==
    \E key \in Range(inputsName) :
        /\ result' = [op |-> "focusIfEmpty", key |-> key, res |-> focusIfEmpty(key)]
        /\ UNCHANGED <<fields, fieldsRef, elValue, valueAtReg, everStored, phase, queue, checked>>

NextHandlers ==
    \/ FieldCallback
    \/ FieldEdit
    \/ SubmitCall
    \/ FocusIfEmptyCall
    \/ GetRefCall
    \/ GetFormDataCall

SpecHandlers == InitForm /\ [][NextHandlers]_vars

-----------------------------------------------------------------------------
(* Vocabulary of the properties *)

(* a handle is stored at n *)
Registered(n) == ~IsNullish(ObjGet(fieldsRef, n))

(* the positions of fields whose name has no handle *)
UnregisteredAt == {i \in 1..Len(fields) : ~Registered(fields[i])}

FirstUnregistered ==
    fields[CHOOSE i \in UnregisteredAt : \A j \in UnregisteredAt : i <= j]

(* res is the error of a strict accessor, and of the field names its       *)
(* message names n and no other                                            *)
IsUnregisteredFieldError(res, n) ==
    /\ res.outcome = "throw"
    /\ res.type = "Error"
    /\ n \in Range(res.message)
    /\ \A m \in (Names \cup Range(fields)) \ {n} : m \notin Range(res.message)

(* the enumeration order of an object's own keys: array indices ascending, *)
(* then the other names in the order of fields                              *)
OwnKeyOrder(ks) ==
    \A i, j \in 1..Len(ks) :
        i < j =>
            IF IsArrayIndex(ks[i])
            THEN ~IsArrayIndex(ks[j]) \/ ArrayIndex(ks[i]) < ArrayIndex(ks[j])
            ELSE /\ ~IsArrayIndex(ks[j])
                 /\ \E a, b \in 1..Len(fields) :
                        a < b /\ fields[a] = ks[i] /\ fields[b] = ks[j]

-----------------------------------------------------------------------------
(* Properties *)

(* C1: whenever some name of fields has no handle, getFormData fails with  *)
(* the unregistered-field error naming the first such name in fields order, *)
(* whatever the position of that name.                                      *)
C1_FirstUnregisteredNamed ==
    (result.op = "getFormData" /\ UnregisteredAt # {})
        => IsUnregisteredFieldError(result.res, FirstUnregistered)

(* C2: getFormData is all-or-nothing: it returns only when every name of   *)
(* fields has a handle, and when one lacks a handle it ends by an error and *)
(* hands back no payload, whole or partial.                                 *)
C2_AllOrNothing ==
    result.op = "getFormData" =>
        /\ result.res.outcome = "return" => UnregisteredAt = {}
        /\ UnregisteredAt # {} =>
              /\ result.res.outcome = "throw"
              /\ "value" \notin DOMAIN result.res

C2_Witness ==
    /\ result.op = "getFormData"
    /\ Len(fields) >= 2
    /\ Registered(fields[1])
    /\ UnregisteredAt # {}
    /\ result.res.outcome = "throw"

(* C3: when every name of fields has a handle, getFormData returns one     *)
(* (name, value) pair per name, in fields order, each value the current     *)
(* value of the handle stored at that name.                                 *)
C3_PayloadInOrder ==
    (result.op = "getFormData" /\ UnregisteredAt = {}) =>
        result.res = Return([i \in 1..Len(fields) |->
                               <<fields[i], elValue[ObjGet(fieldsRef, fields[i])]>>])

C3_Witness ==
    /\ result.op = "getFormData"
    /\ Len(fields) = 3
    /\ UnregisteredAt = {}
    /\ result.res.outcome = "return"
    /\ Len(result.res.value) = 3
    /\ result.res.value[1][2] # result.res.value[3][2]

(* C4: getRef(n), n a name of fields with no handle stored, fails with the *)
(* unregistered-field error naming n, whether n was never registered or was *)
(* registered and then cleared with null.                                   *)
C4_UnregisteredRaises ==
    (result.op = "getRef" /\ result.key \in Range(fields) /\ ~Registered(result.key))
        => IsUnregisteredFieldError(result.res, result.key)

C4_Witness ==
    /\ result.op = "getRef"
    /\ result.key \in everStored
    /\ ~Registered(result.key)
    /\ result.res.outcome = "throw"

(* C5: getRef(n), n a name of fields with a handle stored, returns the     *)
(* value the handle has at the time of the call, not the value it had when  *)
(* it was stored.                                                           *)
C5_ReadThrough ==
    (result.op = "getRef" /\ result.key \in Range(fields) /\ Registered(result.key))
        => result.res = Return(elValue[ObjGet(fieldsRef, result.key)])

C5_Witness ==
    /\ result.op = "getRef"
    /\ result.key \in Range(fields)
    /\ Registered(result.key)
    /\ result.res.outcome = "return"
    /\ result.res.value # valueAtReg[result.key]

(* C6, as stated: getAllRef never raises, and the keys of its result are    *)
(* the names of fields, in fields order.                                    *)
C6_KeysInFieldsOrder ==
    result.op = "getAllRef" =>
        /\ result.res.outcome = "return"
        /\ result.res.value.keys = fields

(* C6, amended: getAllRef never raises, the key set of its result is the    *)
(* set of names of fields, and the keys enumerate with the array-index      *)
(* names first, ascending, then the other names in fields order (that is,   *)
(* in fields order when no name of fields is an array index).               *)
C6_KeysInOwnKeyOrder ==
    result.op = "getAllRef" =>
        /\ result.res.outcome = "return"
        /\ Range(result.res.value.keys) = Range(fields)
        /\ Len(result.res.value.keys) = Len(fields)
        /\ OwnKeyOrder(result.res.value.keys)
        /\ (\A i \in 1..Len(fields) : ~IsArrayIndex(fields[i]))
              => result.res.value.keys = fields

C6_Witness ==
    /\ result.op = "getAllRef"
    /\ result.res.outcome = "return"
    /\ UnregisteredAt # {}
    /\ Len(fields) = 3
    /\ result.res.value.keys # fields

(* C7: the entry of getAllRef's result at a name of fields is the current   *)
(* value of the handle stored there, which is what getRef returns for that  *)
(* name, and is undefined where no handle is stored, which is where getRef  *)
(* raises.                                                                  *)
C7_EntriesAreCurrentValues ==
    result.op = "getAllRef" =>
        \A n \in Range(fields) :
            IF Registered(n)
            THEN /\ result.res.value.val[n] = elValue[ObjGet(fieldsRef, n)]
                 /\ getRef(n) = Return(result.res.value.val[n])
            ELSE /\ result.res.value.val[n] = Undefined
                 /\ getRef(n).outcome = "throw"

C7_Witness ==
    /\ result.op = "getAllRef"
    /\ \E n \in Range(fields) : Registered(n) /\ result.res.value.val[n] = "Fire"
    /\ \E n \in Range(fields) : ~Registered(n) /\ result.res.value.val[n] = Undefined

(* C8: the keys of fieldsRef.current are exactly the names of fields, in    *)
(* every reachable state.                                                   *)
C8_KeySetIsFields ==
    /\ Range(fieldsRef.keys) = Range(fields)
    /\ Len(fieldsRef.keys) = Len(fields)
    /\ DOMAIN fieldsRef.val = Range(fields)

C8_Witness ==
    /\ result.op = "setRef"
    /\ result.key \notin Range(fields)
    /\ result.ref # Null

(* C9: a registration callback for a name that is not in fields changes no  *)
(* stored handle, raises nothing, and the name is no key of the getAllRef   *)
(* result that follows.                                                     *)
C9_UnknownNameIsNoOp ==
    /\ [][(result'.op = "setRef" /\ result'.key \notin Range(fields))
             => /\ fieldsRef' = fieldsRef
                /\ result'.res.outcome = "return"]_vars
    /\ [](result.op = "getAllRef" =>
             /\ result.res.outcome = "return"
             /\ \A n \in Names \ Range(fields) : n \notin Range(result.res.value.keys))

C9_Witness ==
    /\ result.op = "setRef"
    /\ result.key \notin Range(fields)
    /\ \E n \in Range(fields) : Registered(n)
    /\ \E n \in Range(fields) : ~Registered(n)

(* C10: in the form as wired, every name of fields has a handle whenever    *)
(* an event handler can run, and handleSubmit runs to its end: its getRef   *)
(* never raises.                                                            *)
C10_RegisteredBeforeSubmit ==
    /\ Idle => \A n \in Range(fields) : Registered(n)
    /\ result.op = "handleSubmit" =>
          /\ \A n \in Range(fields) : Registered(n)
          /\ result.res.end.outcome = "return"
          /\ Len(result.res.console) = 2

C10_Witness ==
    /\ result.op = "handleSubmit"
    /\ result.res.end.outcome = "return"
    /\ result.res.console[1] = "label3"
    /\ elValue["input"] = "Fire"

(* C11: a strict accessor that meets an absent handle ends by its error,   *)
(* with no value in its place; in handleSubmit the error of getRef is the   *)
(* end of the handler: nothing is logged and focusIfEmpty does not run.     *)
C11_ErrorsPropagate ==
    /\ (result.op = "getRef" /\ result.key \in Range(fields) /\ ~Registered(result.key))
          => /\ result.res.outcome = "throw"
             /\ "value" \notin DOMAIN result.res
    /\ (result.op = "getFormData" /\ UnregisteredAt # {})
          => /\ result.res.outcome = "throw"
             /\ "value" \notin DOMAIN result.res
    /\ (result.op = "handleSubmit" /\ ~Registered("radio_test"))
          => /\ IsUnregisteredFieldError(result.res.end, "radio_test")
             /\ result.res.console = <<>>
             /\ result.res.focus = <<>>

C11_Witness ==
    /\ result.op = "handleSubmit"
    /\ ~Registered("radio_test")
    /\ Registered("name")
    /\ elValue[getField("name")] = ""
    /\ result.res.end.outcome = "throw"

(* C12: a stored handle changes only by the registration callback of its   *)
(* own name, which leaves it equal to the callback's argument (a handle, or  *)
(* null); no accessor, returning or raising, changes fieldsRef.current, and  *)
(* once a handle is stored at a name the strict read of that name returns.   *)
C12_OnlyRegistrationWrites ==
    /\ [][/\ fieldsRef' # fieldsRef =>
                /\ result'.op = "setRef"
                /\ result'.key \in Range(fields)
                /\ \A n \in Range(fields) \ {result'.key} :
                       ObjGet(fieldsRef', n) = ObjGet(fieldsRef, n)
          /\ (result'.op = "setRef" /\ result'.key \in Range(fields)) =>
                ObjGet(fieldsRef', result'.key) = result'.ref
          /\ result'.op \in {"getRef", "getAllRef", "getFormData"} =>
                fieldsRef' = fieldsRef]_vars
    /\ []((result.op = "setRef" /\ result.key \in Range(fields) /\ result.ref # Null)
             => getRef(result.key).outcome = "return")

C12_Witness ==
    /\ result.op = "getFormData"
    /\ result.res.outcome = "throw"
    /\ result.res.type = "Error"
    /\ \E n \in Range(fields) : Registered(n)

(* C13: focusIfEmpty(key) raises an error naming key when no handle is     *)
(* stored at key; when one is stored it calls focus() on it exactly when its *)
(* value is the empty string; it never calls focus() on an absent handle and *)
(* leaves fieldsRef.current as it was.                                       *)
C13_FocusOnlyPresentAndEmpty ==
    /\ [](result.op = "focusIfEmpty" =>
             IF Registered(result.key)
             THEN /\ result.res.outcome = "return"
                  /\ result.res.value =
                        IF elValue[ObjGet(fieldsRef, result.key)] = ""
                        THEN <<ObjGet(fieldsRef, result.key)>>
                        ELSE <<>>
             ELSE /\ result.res.outcome = "throw"
                  /\ result.res.type = "Error"
                  /\ result.key \in Range(result.res.message)
                  /\ "value" \notin DOMAIN result.res)
    /\ [][result'.op = "focusIfEmpty" => fieldsRef' = fieldsRef]_vars

C13_Witness ==
    /\ result.op = "focusIfEmpty"
    /\ result.key = "desc"
    /\ result.res.outcome = "return"
    /\ result.res.value = <<"textarea">>
    /\ ~Registered("name")

(* C14: the radio inputs of a group register under one name and the        *)
(* registry keeps one handle for it, the argument of the latest callback:    *)
(* once the commit is over it is the last radio input attached, so getRef    *)
(* returns that input's value whichever input the user selected; and a null  *)
(* from one input clears the handle while its siblings are still mounted.    *)
C14_LastWriterWins ==
    /\ (result.op = "setRef" /\ result.key \in Range(fields))
          => ObjGet(fieldsRef, result.key) = result.ref
    /\ Idle =>
          /\ ObjGet(fieldsRef, "radio_test") = RadioPool[Len(radio_test)]
          /\ getRef("radio_test") = Return(radio_test[Len(radio_test)])
    /\ result.op = "handleSubmit" =>
          result.res.console[1] = radio_test[Len(radio_test)]
    /\ (/\ result.op = "setRef"
        /\ result.key = "radio_test"
        /\ result.ref = Null
        /\ queue # <<>>
        /\ Head(queue) = <<"radio_test", Null>>)
          => ~Registered("radio_test")

C14_Witness ==
    /\ result.op = "handleSubmit"
    /\ checked = RadioPool[1]
    /\ result.res.console[1] = radio_test[3]
    /\ result.res.end.outcome = "return"

(* what the strict read of m answers, as decided by the handle stored at m *)
(* and that handle's value alone                                            *)
ReadThrough(m) ==
    IF Registered(m)
    THEN Return(elValue[ObjGet(fieldsRef, m)])
    ELSE Throw("Error", NotAssignedMessage(m))

(* C15: a registration callback for a name changes the handle stored at no  *)
(* other name of fields and no element's value, and getRef(m) depends on    *)
(* nothing but the handle stored at m and its value: so the strict read of  *)
(* every other name returns or raises after the callback as before it.      *)
C15_FieldsAreIsolated ==
    /\ [][result'.op = "setRef" =>
             /\ \A m \in Range(fields) \ {result'.key} :
                    ObjGet(fieldsRef', m) = ObjGet(fieldsRef, m)
             /\ elValue' = elValue]_vars
    /\ [](\A m \in Range(fields) : getRef(m) = ReadThrough(m))

C15_Witness ==
    /\ result.op = "setRef"
    /\ result.key \in Range(fields)
    /\ result.ref = Null
    /\ \E m \in Range(fields) \ {result.key} : Registered(m)
    /\ \E m \in Range(fields) \ {result.key} : ~Registered(m)

====
